---- MODULE Spec2Model ----
(***************************************************************************)
(* A model of fps3d (src/src/main.rs): the windowing event loop that owns  *)
(* the GraphicEngine, the relay process_window_event, and the background   *)
(* task GameState::run that drains the channel into the keyboard table.    *)
(***************************************************************************)
EXTENDS Integers, Sequences, FiniteSets, TLC

(* ------------------------------ bounds -------------------------------- *)

\* Window widths and heights range over 0..MaxDim.
MaxDim == 2

\* The channel is unbounded in the code; the model lets the relay send only
\* while fewer than MaxQueue messages are waiting.
MaxQueue == 2

(* ------------------------- program constants -------------------------- *)

\* keyboard: [bool; 193]
TableSize == 193

\* `keycode as usize` for the key codes the model draws from: the four
\* movement keys read by run, Escape (carried by the Exit message) and F35,
\* the last variant of winit's KeyCode.
KeyA == 19
KeyD == 22
KeyS == 37
KeyW == 41
Escape == 114
F35 == 193

KeyCodes == {KeyW, KeyS, KeyA, KeyD, F35}

\* The physical key of a KeyboardInput event: PhysicalKey::Code(keycode), or
\* PhysicalKey::Unidentified, written NoCode.
NoCode == -1

VERTICES == <<"A", "B", "C", "D", "E">>

INDICES == <<0, 1, 4, 1, 2, 4, 2, 3, 4>>

Dims == 0..MaxDim

PhysicalSize(w, h) == [width |-> w, height |-> h]

\* What surface.get_capabilities can report: the model draws from one list
\* with an sRGB format that is not first, and one without any sRGB format.
SurfaceCaps ==
    { [formats |-> <<"Bgra8Unorm", "Bgra8UnormSrgb">>,
       present_modes |-> <<"Fifo", "Mailbox">>,
       alpha_modes |-> <<"Opaque">>],
      [formats |-> <<"Rgba8Unorm">>,
       present_modes |-> <<"Fifo", "Mailbox">>,
       alpha_modes |-> <<"Opaque">>] }

is_srgb(f) == f \in {"Bgra8UnormSrgb", "Rgba8UnormSrgb"}

\* surface_caps.formats.iter().find(|f| f.is_srgb()).copied()
\*     .unwrap_or(surface_caps.formats[0])
surface_format(caps) ==
    LET srgb == {i \in 1..Len(caps.formats) : is_srgb(caps.formats[i])}
    IN  IF srgb = {}
        THEN caps.formats[1]
        ELSE caps.formats[CHOOSE i \in srgb : \A j \in srgb : i <= j]

(* ------------------------------- state -------------------------------- *)

VARIABLES
    window_size,        \* the window's physical size, as last reported
    state,              \* main's GraphicEngine
    surface_configured, \* main's flag
    control_flow,       \* "running", "exiting" (exit() called), "exited", "aborted"
    event,              \* the event the closure was last called with
    render_result,      \* what the last state.render() returned
    calls,              \* the window and GPU calls of the last dispatch, in order
    draw,               \* the arguments of the last draw_indexed
    queue,              \* the channel: messages sent and not yet received
    keyboard,           \* GameState.keyboard
    pc,                 \* the background task: "running", "done", "panicked"
    v,                  \* the result of the task's last try_recv
    printed             \* the lines the task's last iteration printed

vars == <<window_size, state, surface_configured, control_flow, event,
          render_result, calls, draw, queue, keyboard, pc, v, printed>>

gfx_vars == <<window_size, state, surface_configured, render_result, calls, draw>>

task_vars == <<keyboard, pc, v, printed>>

(* ------------------------------ messages ------------------------------ *)

KeyState(flag, code) == [key_flag |-> flag, keycode |-> code]

\* try_recv's Err(Empty) and Err(Disconnected), in the shape of a message.
RecvEmpty == KeyState("Empty", NoCode)

RecvDisconnected == KeyState("Disconnected", NoCode)

NoEvent == [kind |-> "None", width |-> 0, height |-> 0,
            state |-> "None", physical_key |-> NoCode]

Resized(w, h) == [NoEvent EXCEPT !.kind = "Resized", !.width = w, !.height = h]

RedrawRequested == [NoEvent EXCEPT !.kind = "RedrawRequested"]

CloseRequested == [NoEvent EXCEPT !.kind = "CloseRequested"]

KeyboardInput(st, key) ==
    [NoEvent EXCEPT !.kind = "KeyboardInput", !.state = st, !.physical_key = key]

\* Any other WindowEvent, such as CursorMoved.
OtherWindowEvent == [NoEvent EXCEPT !.kind = "CursorMoved"]

\* An event that is no WindowEvent of this window.
NonWindowEvent == [NoEvent EXCEPT !.kind = "AboutToWait"]

NoDraw == [first |-> 0, end |-> 0, base_vertex |-> 0,
           first_instance |-> 0, end_instance |-> 0]

(* --------------------------- GraphicEngine ---------------------------- *)

\* A surface that surface.configure was never called on holds no
\* configuration; after configure it holds the configuration it was given.
Unconfigured == <<>>

Configured(config) == <<config>>

\* GraphicEngine::new as it would be if it also called surface.configure.
GraphicEngine_new_configures(size, surface_caps) ==
    LET config == [format       |-> surface_format(surface_caps),
                   width        |-> size.width,
                   height       |-> size.height,
                   present_mode |-> surface_caps.present_modes[1],
                   alpha_mode   |-> surface_caps.alpha_modes[1]]
    IN  [surface       |-> <<config>>,
         config        |-> config,
         size          |-> size,
         buffer        |-> VERTICES,
         index_buffer  |-> INDICES,
         num_indices   |-> Len(INDICES),
         num_vertices  |-> Len(VERTICES)]

\* GraphicEngine::new: the configuration is built from the window's size and
\* the surface's capabilities and stored in the engine.
GraphicEngine_new(size, surface_caps) ==
    [surface       |-> Unconfigured,
     config        |-> [format       |-> surface_format(surface_caps),
                        width        |-> size.width,
                        height       |-> size.height,
                        present_mode |-> surface_caps.present_modes[1],
                        alpha_mode   |-> surface_caps.alpha_modes[1]],
     size          |-> size,
     buffer        |-> VERTICES,
     index_buffer  |-> INDICES,
     num_indices   |-> Len(INDICES),
     num_vertices  |-> Len(VERTICES)]

\* resize with `||` for `&&` in its test.
resize_either_positive(st, new_size) ==
    IF new_size.width > 0 \/ new_size.height > 0
    THEN LET config == [st.config EXCEPT !.width = new_size.width,
                                         !.height = new_size.height]
         IN  [state |-> [st EXCEPT !.size = new_size,
                                   !.config = config,
                                   !.surface = <<config>>],
              calls |-> <<"configure">>]
    ELSE [state |-> st, calls |-> <<>>]

\* resize without `self.config.height = new_size.height`.
resize_width_only(st, new_size) ==
    IF new_size.width > 0 /\ new_size.height > 0
    THEN LET config == [st.config EXCEPT !.width = new_size.width]
         IN  [state |-> [st EXCEPT !.size = new_size,
                                   !.config = config,
                                   !.surface = <<config>>],
              calls |-> <<"configure">>]
    ELSE [state |-> st, calls |-> <<>>]

\* resize with `+=` for `=` on config.width.
resize_accumulates(st, new_size) ==
    IF new_size.width > 0 /\ new_size.height > 0
    THEN LET config == [st.config EXCEPT !.width = st.config.width + new_size.width,
                                         !.height = new_size.height]
         IN  [state |-> [st EXCEPT !.size = new_size,
                                   !.config = config,
                                   !.surface = <<config>>],
              calls |-> <<"configure">>]
    ELSE [state |-> st, calls |-> <<>>]

\* resize without `self.size = new_size`.
resize_keeps_size(st, new_size) ==
    IF new_size.width > 0 /\ new_size.height > 0
    THEN LET config == [st.config EXCEPT !.width = new_size.width,
                                         !.height = new_size.height]
         IN  [state |-> [st EXCEPT !.config = config,
                                   !.surface = <<config>>],
              calls |-> <<"configure">>]
    ELSE [state |-> st, calls |-> <<>>]

\* GraphicEngine::resize: the engine after the call, and the calls made.
resize(st, new_size) ==
    IF new_size.width > 0 /\ new_size.height > 0
    THEN LET config == [st.config EXCEPT !.width = new_size.width,
                                         !.height = new_size.height]
         IN  [state |-> [st EXCEPT !.size = new_size,
                                   !.config = config,
                                   !.surface = Configured(config)],
              calls |-> <<"configure">>]
    ELSE [state |-> st, calls |-> <<>>]

\* What surface.get_current_texture can return: a texture or a SurfaceError.
SurfaceResults == {"Ok", "Timeout", "Outdated", "Lost", "OutOfMemory"}

\* draw_indexed over 0..self.num_vertices.
draw_indexed_vertices(st) ==
    [first |-> 0, end |-> st.num_vertices, base_vertex |-> 0,
     first_instance |-> 0, end_instance |-> 1]

\* render_pass.draw_indexed(0..self.num_indices, 0, 0..1)
draw_indexed(st) ==
    [first |-> 0, end |-> st.num_indices, base_vertex |-> 0,
     first_instance |-> 0, end_instance |-> 1]

\* render with output.present() before self.queue.submit(..).
render_presents_first(st, acquired) ==
    IF st.surface = <<>>
    THEN [result |-> "Panic", calls |-> <<"get_current_texture">>, draw |-> NoDraw]
    ELSE IF acquired # "Ok"
    THEN [result |-> acquired, calls |-> <<"get_current_texture">>, draw |-> NoDraw]
    ELSE [result |-> "Ok",
          calls  |-> <<"get_current_texture", "create_view",
                       "create_command_encoder", "begin_render_pass",
                       "set_pipeline", "set_vertex_buffer", "set_index_buffer",
                       "draw_indexed", "end_render_pass", "finish", "present",
                       "submit">>,
          draw   |-> draw_indexed(st)]

\* GraphicEngine::render, given what get_current_texture returns: the result,
\* the calls made in order, and the draw issued. On a surface that was never
\* configured get_current_texture does not return: wgpu panics.
render(st, acquired) ==
    IF st.surface = Unconfigured
    THEN [result |-> "Panic", calls |-> <<"get_current_texture">>, draw |-> NoDraw]
    ELSE IF acquired # "Ok"
    THEN [result |-> acquired, calls |-> <<"get_current_texture">>, draw |-> NoDraw]
    ELSE [result |-> "Ok",
          calls  |-> <<"get_current_texture", "create_view",
                       "create_command_encoder", "begin_render_pass",
                       "set_pipeline", "set_vertex_buffer", "set_index_buffer",
                       "draw_indexed", "end_render_pass", "finish", "submit",
                       "present">>,
          draw   |-> draw_indexed(st)]

\* The driver's match with every error but Lost treated as fatal.
render_outcome_fatal(st, result) ==
    CASE result = "Ok" ->
           [state |-> st, calls |-> <<>>, exit |-> FALSE]
      [] result = "Lost" ->
           [state |-> st, calls |-> <<>>, exit |-> FALSE]
      [] OTHER ->
           [state |-> st, calls |-> <<>>, exit |-> TRUE]

\* The driver's match on render's result: the engine after it, the calls made
\* and whether control_flow.exit() was called.
render_outcome(st, result) ==
    CASE result = "Ok" ->
           [state |-> st, calls |-> <<>>, exit |-> FALSE]
      [] result = "Lost" ->
           [state |-> resize(st, st.size).state,
            calls |-> resize(st, st.size).calls, exit |-> FALSE]
      [] result = "OutOfMemory" ->
           [state |-> st, calls |-> <<>>, exit |-> TRUE]
      [] OTHER ->
           [state |-> st, calls |-> <<"eprintln">>, exit |-> FALSE]

\* control_flow.exit(): the loop ends when the current iteration is over.
exit(cf) == IF cf = "running" THEN "exiting" ELSE cf

(* ---------------------------- Input Relay ----------------------------- *)

\* sender.send(msg) for each message of msgs in order: a message joins the
\* queue while the receiver lives; once the background task is over the
\* receiver is dropped, send returns Err and the result is discarded.
send(q, msgs, receiver_alive) == IF receiver_alive THEN q \o msgs ELSE q

\* process_window_event with the third `if let` matching every KeyboardInput,
\* whatever its ElementState.
process_window_event_any_state(ev) ==
    LET close == IF ev.kind = "CloseRequested"
                 THEN <<KeyState("Exit", Escape)>> ELSE <<>>
        pressed == IF /\ ev.kind = "KeyboardInput"
                      /\ ev.state = "Pressed"
                      /\ ev.physical_key # NoCode
                   THEN <<KeyState("Pressed", ev.physical_key)>> ELSE <<>>
        released == IF /\ ev.kind = "KeyboardInput"
                       /\ ev.physical_key # NoCode
                    THEN <<KeyState("Released", ev.physical_key)>> ELSE <<>>
    IN  [sent |-> close \o pressed \o released,
         exit |-> ev.kind = "CloseRequested"]

\* process_window_event: the messages sent, in order, and whether
\* control_flow.exit() was called.
process_window_event(ev) ==
    LET close == IF ev.kind = "CloseRequested"
                 THEN <<KeyState("Exit", Escape)>> ELSE <<>>
        pressed == IF /\ ev.kind = "KeyboardInput"
                      /\ ev.state = "Pressed"
                      /\ ev.physical_key # NoCode
                   THEN <<KeyState("Pressed", ev.physical_key)>> ELSE <<>>
        released == IF /\ ev.kind = "KeyboardInput"
                       /\ ev.state = "Released"
                       /\ ev.physical_key # NoCode
                    THEN <<KeyState("Released", ev.physical_key)>> ELSE <<>>
    IN  [sent |-> close \o pressed \o released,
         exit |-> ev.kind = "CloseRequested"]

(* -------------------------- GameState::run ---------------------------- *)

\* GameState::new
GameState_new == [c \in 0..(TableSize - 1) |-> FALSE]

\* command_receiver.try_recv()
try_recv(q, senders_alive) ==
    IF q # <<>> THEN Head(q)
    ELSE IF senders_alive THEN RecvEmpty ELSE RecvDisconnected

\* self.keyboard[v.keycode as usize] = b panics when the index is not below
\* the length of the table.
in_bounds(code) == code >= 0 /\ code < TableSize

\* apply with a Released message clearing the whole table.
apply_release_all(kb, msg) ==
    IF msg.key_flag = "Pressed" /\ in_bounds(msg.keycode)
    THEN [kb EXCEPT ![msg.keycode] = TRUE]
    ELSE IF msg.key_flag = "Released" /\ in_bounds(msg.keycode)
    THEN [c \in DOMAIN kb |-> FALSE]
    ELSE kb

\* The keyboard after one message is applied (lines 71-77).
apply(kb, msg) ==
    IF msg.key_flag = "Pressed" /\ in_bounds(msg.keycode)
    THEN [kb EXCEPT ![msg.keycode] = TRUE]
    ELSE IF msg.key_flag = "Released" /\ in_bounds(msg.keycode)
    THEN [kb EXCEPT ![msg.keycode] = FALSE]
    ELSE kb

\* Whether applying the message indexes outside the table.
panics(msg) ==
    msg.key_flag \in {"Pressed", "Released"} /\ ~in_bounds(msg.keycode)

\* The lines printed at the end of an iteration (lines 80-94).
movement(kb) ==
    {l \in {"forward!!", "backward", "left", "right"} :
        \/ l = "forward!!" /\ kb[KeyW]
        \/ l = "backward" /\ kb[KeyS]
        \/ l = "left" /\ kb[KeyA]
        \/ l = "right" /\ kb[KeyD]}

(* ------------------------------ actions ------------------------------- *)

\* main up to event_loop.run: the window has some size, the task is spawned
\* with an empty table, surface_configured is false and the engine is built.
Init ==
    /\ window_size \in {PhysicalSize(w, h) : w \in Dims, h \in Dims}
    /\ state \in {GraphicEngine_new(window_size, caps) : caps \in SurfaceCaps}
    /\ surface_configured = FALSE
    /\ control_flow = "running"
    /\ event = NoEvent
    /\ render_result = "NotCalled"
    /\ calls = <<>>
    /\ draw = NoDraw
    /\ queue = <<>>
    /\ keyboard = GameState_new
    /\ pc = "running"
    /\ v = RecvEmpty
    /\ printed = {}

\* The closure is called with events until the loop is over; after
\* control_flow.exit() the events left in the current iteration still arrive.
Dispatching == control_flow \in {"running", "exiting"}

\* WindowEvent::Resized(physical_size)
OnResized(w, h) ==
    /\ Dispatching
    /\ event' = Resized(w, h)
    /\ window_size' = PhysicalSize(w, h)
    /\ surface_configured' = TRUE
    /\ state' = resize(state, PhysicalSize(w, h)).state
    /\ calls' = resize(state, PhysicalSize(w, h)).calls
    /\ render_result' = "NotCalled"
    /\ draw' = NoDraw
    /\ UNCHANGED <<control_flow, queue, keyboard, pc, v, printed>>

\* The redraw arm without its test of surface_configured.
skip_frame_never(configured) == FALSE

\* if !surface_configured { return; }
skip_frame(configured) == ~configured

\* A handler that forgets to ask for the next frame.
request_redraw_forgotten == <<>>

\* state.window().request_redraw(), the first statement of the arm.
request_redraw == <<"request_redraw">>

\* WindowEvent::RedrawRequested, with what get_current_texture would return.
OnRedrawRequested(acquired) ==
    /\ Dispatching
    /\ event' = RedrawRequested
    /\ IF skip_frame(surface_configured)
       THEN /\ calls' = request_redraw
            /\ render_result' = "NotCalled"
            /\ draw' = NoDraw
            /\ UNCHANGED <<state, control_flow>>
       ELSE LET r == render(state, acquired)
                o == render_outcome(state, r.result)
            IN  /\ render_result' = r.result
                /\ draw' = r.draw
                /\ IF r.result = "Panic"
                   THEN /\ calls' = request_redraw \o r.calls
                        /\ control_flow' = "aborted"
                        /\ UNCHANGED state
                   ELSE /\ calls' = request_redraw \o r.calls \o o.calls
                        /\ state' = o.state
                        /\ control_flow' = IF o.exit THEN exit(control_flow)
                                           ELSE control_flow
    /\ UNCHANGED <<window_size, surface_configured, queue, keyboard, pc, v, printed>>

\* Every other WindowEvent of the window goes to process_window_event.
RelayEvents ==
    {CloseRequested, OtherWindowEvent}
    \cup {KeyboardInput(st, k) : st \in {"Pressed", "Released"},
                                 k \in KeyCodes \cup {NoCode}}

OnWindowEvent(ev) ==
    LET r == process_window_event(ev)
        receiver_alive == pc = "running"
    IN  /\ Dispatching
        /\ receiver_alive => Len(queue) + Len(r.sent) <= MaxQueue
        /\ event' = ev
        /\ queue' = send(queue, r.sent, receiver_alive)
        /\ control_flow' = IF r.exit THEN exit(control_flow) ELSE control_flow
        /\ calls' = <<>>
        /\ render_result' = "NotCalled"
        /\ draw' = NoDraw
        /\ UNCHANGED <<window_size, state, surface_configured, keyboard, pc, v, printed>>

\* Event::* that is not a WindowEvent of this window: `_ => ()`
OnOtherEvent ==
    /\ Dispatching
    /\ event' = NonWindowEvent
    /\ calls' = <<>>
    /\ render_result' = "NotCalled"
    /\ draw' = NoDraw
    /\ UNCHANGED <<window_size, state, surface_configured, control_flow,
                   queue, keyboard, pc, v, printed>>

\* event_loop.run returns once exit() was called and the iteration is over.
LoopExit ==
    /\ control_flow = "exiting"
    /\ control_flow' = "exited"
    /\ UNCHANGED <<window_size, state, surface_configured, event, render_result,
                   calls, draw, queue, keyboard, pc, v, printed>>

\* The loop without its break.
is_exit_never(msg) == FALSE

\* if v.key_flag == KeyFlag::Exit { break; }
is_exit(msg) == msg.key_flag = "Exit"

\* One iteration of the loop of GameState::run.
RunIteration ==
    LET msg == try_recv(queue, control_flow \in {"running", "exiting"}) IN
    /\ pc = "running"
    /\ v' = msg
    /\ queue' = IF queue # <<>> THEN Tail(queue) ELSE queue
    /\ IF is_exit(msg)
       THEN /\ pc' = "done"
            /\ printed' = {}
            /\ UNCHANGED keyboard
       ELSE IF panics(msg)
       THEN /\ pc' = "panicked"
            /\ printed' = {}
            /\ UNCHANGED keyboard
       ELSE /\ pc' = "running"
            /\ keyboard' = apply(keyboard, msg)
            /\ printed' = movement(keyboard')
    /\ UNCHANGED <<window_size, state, surface_configured, control_flow, event,
                   render_result, calls, draw>>

\* Every step of the program.
Next ==
    \/ \E w \in Dims, h \in Dims : OnResized(w, h)
    \/ \E acquired \in SurfaceResults : OnRedrawRequested(acquired)
    \/ \E ev \in RelayEvents : OnWindowEvent(ev)
    \/ OnOtherEvent
    \/ LoopExit
    \/ RunIteration

Spec == Init /\ [][Next]_vars

\* The event loop with the graphics events and the events that no arm of
\* process_window_event sends a key for: the Resized and RedrawRequested arms
\* never touch the channel, and the keyboard events never touch the engine.
NextGfx ==
    \/ \E w \in Dims, h \in Dims : OnResized(w, h)
    \/ \E acquired \in SurfaceResults : OnRedrawRequested(acquired)
    \/ \E ev \in {CloseRequested, OtherWindowEvent} : OnWindowEvent(ev)
    \/ OnOtherEvent
    \/ LoopExit
    \/ RunIteration

SpecGfx == Init /\ [][NextGfx]_vars

\* The relay and the background task, from one window size.
InitInput ==
    /\ Init
    /\ window_size = PhysicalSize(MaxDim, MaxDim)

NextInput ==
    \/ \E ev \in RelayEvents : OnWindowEvent(ev)
    \/ LoopExit
    \/ RunIteration

SpecInput == InitInput /\ [][NextInput]_vars

\* The runtime keeps running the background task, and the event loop ends
\* the iteration in which exit() was called.
FairInput == SpecInput /\ WF_vars(RunIteration) /\ WF_vars(LoopExit)

\* Both threads together: every kind of event and the background task, with
\* the Resized events drawn from the sizes with dimensions 0 and MaxDim, the
\* redraws from a rendered frame, a lost surface and OutOfMemory, and the
\* keyboard events from two keys inside the table, one outside it and one
\* without a code.
MixEvents ==
    {CloseRequested, OtherWindowEvent}
    \cup {KeyboardInput(st, k) : st \in {"Pressed", "Released"},
                                 k \in {KeyW, KeyD, F35, NoCode}}

NextMix ==
    \/ \E w \in {0, MaxDim}, h \in {0, MaxDim} : OnResized(w, h)
    \/ \E acquired \in {"Ok", "Lost", "OutOfMemory"} : OnRedrawRequested(acquired)
    \/ \E ev \in MixEvents : OnWindowEvent(ev)
    \/ OnOtherEvent
    \/ LoopExit
    \/ RunIteration

SpecMix == InitInput /\ [][NextMix]_vars

(* ------------------------- the key table (C1) ------------------------- *)

\* The step in which try_recv takes the message at the head of the queue.
Dequeues == pc = "running" /\ queue # <<>> /\ queue' = Tail(queue)

\* C1: dequeuing a Pressed message for a key code c inside the table makes
\* keyboard[c] true, dequeuing a Released message for c makes it false, and
\* either leaves keyboard[d] as it was for every other d.
C1_KeyTable ==
    [][ (/\ Dequeues
         /\ Head(queue).key_flag \in {"Pressed", "Released"}
         /\ in_bounds(Head(queue).keycode))
        => LET c == Head(queue).keycode IN
           /\ pc' = "running"
           /\ keyboard'[c] = (Head(queue).key_flag = "Pressed")
           /\ \A d \in DOMAIN keyboard : d # c => keyboard'[d] = keyboard[d] ]_vars

\* A Released message was dequeued for a key that is now up while another
\* key, pressed before, is still held.
C1_Witness ==
    /\ pc = "running"
    /\ v.key_flag = "Released"
    /\ in_bounds(v.keycode)
    /\ ~keyboard[v.keycode]
    /\ \E d \in DOMAIN keyboard : d # v.keycode /\ keyboard[d]

(* ---------------------------- Exit (C2, C6) --------------------------- *)

ExitPending == \E i \in 1..Len(queue) : queue[i].key_flag = "Exit"

C6_CloseObserved ==
    (event.kind = "CloseRequested")
        ~> (control_flow = "exited" /\ pc = "done" /\ v.key_flag = "Exit")

(* ---------------------------- resize (C3) ----------------------------- *)

ZeroArea(ev) == ev.width = 0 \/ ev.height = 0

HasCall(name) == \E i \in 1..Len(calls) : calls[i] = name

\* C3: a Resized event with a zero width or height leaves the engine (its
\* SurfaceConfig, its stored size and the surface) as it was and configures
\* nothing; one with positive dimensions sets config.width and config.height
\* to the new values, applies the config to the surface and leaves the
\* surface marked configured.
C3_Resized ==
    [][ event'.kind = "Resized" =>
          IF ZeroArea(event')
          THEN state' = state /\ ~HasCall("configure")'
          ELSE /\ state'.config.width = event'.width
               /\ state'.config.height = event'.height
               /\ state'.config.format = state.config.format
               /\ state'.surface = Configured(state'.config)
               /\ HasCall("configure")'
               /\ surface_configured' ]_vars

\* A zero-area Resized event was dispatched after a positive one had
\* configured the surface, and the configuration is still the positive one.
C3_Witness ==
    /\ event.kind = "Resized"
    /\ ZeroArea(event)
    /\ state.surface = Configured(state.config)
    /\ state.config.width = MaxDim
    /\ state.config.height = 1

(* ------------------------ redraw and render (C4) ---------------------- *)

\* C4: a RedrawRequested event dispatched while surface_configured is false
\* makes no GPU call (only request_redraw), does not call render, does not
\* call exit and leaves the engine as it was.
C4_SkipFrame ==
    [][ (event'.kind = "RedrawRequested" /\ ~surface_configured') =>
          /\ calls' = <<"request_redraw">>
          /\ render_result' = "NotCalled"
          /\ draw' = NoDraw
          /\ state' = state
          /\ (control_flow = "running" => control_flow' = "running") ]_vars

\* A redraw arrived before any Resized event.
C4_Witness ==
    /\ event.kind = "RedrawRequested"
    /\ ~surface_configured
    /\ calls = <<"request_redraw">>
    /\ control_flow = "running"

(* ----------------------- render errors (C5, C9) ----------------------- *)

\* C5: when render returns the lost or the outdated error the driver has
\* resize apply the config to the surface again, does not call exit, and
\* the surface stays marked configured for the next redraw.
C5_LostOrOutdated ==
    [][ (event'.kind = "RedrawRequested" /\ render_result' \in {"Lost", "Outdated"}) =>
          /\ HasCall("configure")'
          /\ state'.surface = Configured(state'.config)
          /\ surface_configured'
          /\ (control_flow = "running" => control_flow' = "running") ]_vars

\* C9: OutOfMemory makes the driver call exit, and no other result of render
\* does; a Timeout drops the frame: after get_current_texture nothing but
\* the log line happens, the engine and surface_configured stay as they
\* were, and exit is not called, so the next redraw calls render again.
C9_RenderErrors ==
    [][ event'.kind = "RedrawRequested" =>
          /\ render_result' = "OutOfMemory" => control_flow' \in {"exiting", "exited"}
          /\ (control_flow = "running" /\ control_flow' = "exiting")
                => render_result' = "OutOfMemory"
          /\ render_result' = "Timeout" =>
                /\ calls' = <<"request_redraw", "get_current_texture", "eprintln">>
                /\ state' = state
                /\ surface_configured'
                /\ state'.surface # Unconfigured
                /\ (control_flow = "running" => control_flow' = "running") ]_vars

\* A render timed out and the loop is still running.
C9_Witness ==
    /\ event.kind = "RedrawRequested"
    /\ render_result = "Timeout"
    /\ control_flow = "running"
    /\ surface_configured

(* ------------------- config and window size (C7, C8) ------------------ *)

\* render was entered and get_current_texture returned.
Rendered == render_result \in SurfaceResults

ConfigIs(size) ==
    state.config.width = size.width /\ state.config.height = size.height

\* C7 as stated: whenever render is entered, config.width and config.height
\* are the window's current physical width and height.
C7_ConfigIsWindow == Rendered => ConfigIs(window_size)

\* C7 as amended: whenever render is entered while the window's physical
\* size, as last reported, is positive in both dimensions, config.width and
\* config.height equal it; in every case they equal the engine's stored
\* size, the last positive size reported.
C7_ConfigIsPositiveWindow ==
    Rendered =>
        /\ ConfigIs(state.size)
        /\ state.size.width > 0 /\ state.size.height > 0
        /\ (window_size.width > 0 /\ window_size.height > 0) => ConfigIs(window_size)

\* A frame was rendered after the window took a size other than the one it
\* had when the engine was built.
C7_Witness ==
    /\ render_result = "Ok"
    /\ window_size = PhysicalSize(MaxDim, 1)
    /\ ConfigIs(window_size)

C10_Draw ==
    /\ draw # NoDraw =>
          draw = [first |-> 0, end |-> 9, base_vertex |-> 0,
                  first_instance |-> 0, end_instance |-> 1]
    /\ render_result = "Ok" => (draw # NoDraw /\ HasCall("draw_indexed"))
    /\ state.num_indices = 9
    /\ state.num_vertices = 5
    /\ Len(state.buffer) = 5
    /\ Len(state.index_buffer) = 9

\* A frame was drawn after a resize to a size that is not square.
C10_Witness ==
    /\ render_result = "Ok"
    /\ draw.end = 9
    /\ state.config.width # state.config.height

(* ----------------------- resize twice (C11) --------------------------- *)

\* format, present mode and alpha mode of a SurfaceConfig.
Modes(config) == <<config.format, config.present_mode, config.alpha_mode>>

\* C11: from every reachable engine, resize with positive dimensions called
\* a second time with the same dimensions leaves the engine (SurfaceConfig
\* and surface) as the first call left it, the surface then holds the
\* engine's config, and no resize changes format, present mode or alpha
\* mode; so after a positive Resized event the same event changes nothing.
C11_ResizeIdempotent ==
    /\ \A w \in Dims, h \in Dims :
          LET once  == resize(state, PhysicalSize(w, h))
              twice == resize(once.state, PhysicalSize(w, h))
          IN  /\ Modes(once.state.config) = Modes(state.config)
              /\ (w > 0 /\ h > 0) =>
                    /\ twice.state = once.state
                    /\ once.state.config.width = w
                    /\ once.state.config.height = h
                    /\ once.state.surface = Configured(once.state.config)
    /\ (event.kind = "Resized" /\ ~ZeroArea(event)) =>
          resize(state, PhysicalSize(event.width, event.height)).state = state

\* A positive Resized event was dispatched to an engine whose config had
\* another size, and the surface holds the new config.
C11_Witness ==
    /\ event.kind = "Resized"
    /\ event.width = MaxDim /\ event.height = 1
    /\ state.surface = Configured(state.config)
    /\ ConfigIs(PhysicalSize(MaxDim, 1))
    /\ HasCall("configure")

(* ------------------- the steps of one render (C12) -------------------- *)

\* The steps of render in the order of the code (lines 317-350).
RenderSteps ==
    <<"get_current_texture", "create_view", "create_command_encoder",
      "begin_render_pass", "set_pipeline", "set_vertex_buffer",
      "set_index_buffer", "draw_indexed", "end_render_pass", "finish",
      "submit", "present">>

\* The places of a call among the calls of the last dispatch.
Places(name) == {i \in 1..Len(calls) : calls[i] = name}

Before(a, b) == \A i \in Places(a), j \in Places(b) : i < j

\* C12: a render that acquires its texture makes each step once, in the
\* order of RenderSteps; in particular the render pass ends before finish and
\* submit comes before present. A render whose acquisition fails makes none
\* of the later steps and issues no draw.
C12_RenderOrder ==
    /\ render_result = "Ok" =>
          /\ \A i \in 1..Len(RenderSteps) : Cardinality(Places(RenderSteps[i])) = 1
          /\ \A i \in 1..Len(RenderSteps), j \in 1..Len(RenderSteps) :
                i < j => Before(RenderSteps[i], RenderSteps[j])
          /\ Before("end_render_pass", "finish")
          /\ Before("submit", "present")
    /\ render_result \in (SurfaceResults \ {"Ok"}) =>
          /\ Cardinality(Places("get_current_texture")) = 1
          /\ \A i \in 2..Len(RenderSteps) : Places(RenderSteps[i]) = {}
          /\ draw = NoDraw
    /\ render_result = "NotCalled" =>
          \A i \in 1..Len(RenderSteps) : Places(RenderSteps[i]) = {}

\* A frame was rendered: the twelve steps follow request_redraw.
C12_Witness ==
    /\ render_result = "Ok"
    /\ Len(calls) = 1 + Len(RenderSteps)
    /\ calls[Len(calls)] = "present"

(* ------------------ the configured flag (C13) ------------------------- *)

\* C13: surface_configured is true only when surface.configure has been
\* called, and get_current_texture is called only on a surface that holds a
\* configuration.
C13_FlagMeansConfigured ==
    /\ surface_configured => state.surface # Unconfigured
    /\ HasCall("get_current_texture") => state.surface # Unconfigured

(* --------------------------- the relay (C14) -------------------------- *)

\* What the relay is to send for an event: a keyboard event with a physical
\* key code gives one message with the event's state and code,
\* CloseRequested gives the Exit message, every other event nothing.
Forwarded(ev) ==
    IF ev.kind = "KeyboardInput" /\ ev.physical_key # NoCode
    THEN <<KeyState(ev.state, ev.physical_key)>>
    ELSE IF ev.kind = "CloseRequested"
    THEN <<KeyState("Exit", Escape)>>
    ELSE <<>>

\* C14: the dispatch of an event sends exactly the messages of Forwarded:
\* they join the tail of the queue while the receiver lives (after the task
\* is over send fails and the queue stays as it is); whenever the queue
\* grows it grows by the one message of the event dispatched; and a
\* Resized, RedrawRequested or other event never makes it grow.
C14_Relay ==
    [][ /\ (event' # event /\ event'.kind \in {"KeyboardInput", "CloseRequested", "CursorMoved"})
            => /\ process_window_event(event').sent = Forwarded(event')
               /\ Len(Forwarded(event')) <= 1
               /\ queue' = IF pc = "running" THEN queue \o Forwarded(event') ELSE queue
        /\ Len(queue') > Len(queue)
            => /\ event'.kind \in {"KeyboardInput", "CloseRequested"}
               /\ Forwarded(event') # <<>>
               /\ queue' = queue \o Forwarded(event')
        /\ event'.kind \in {"Resized", "RedrawRequested", "CursorMoved", "AboutToWait"}
            => Len(queue') <= Len(queue) ]_vars

\* A released key was forwarded behind a message still waiting, after a
\* Resized event had been dispatched.
C14_Witness ==
    /\ event = KeyboardInput("Released", KeyD)
    /\ Len(queue) = 2
    /\ queue[2] = KeyState("Released", KeyD)
    /\ surface_configured

(* ------------------------ order of messages (C15) --------------------- *)

\* The table that results from applying messages in sequence order to kb:
\* Pressed sets the slot of its code, Released clears it, and a message for
\* a code that is none of the table's slots changes none of them; the
\* sequence is followed up to the Exit message, which ends the loop.
RECURSIVE InSendOrder(_, _)
InSendOrder(kb, msgs) ==
    IF msgs = <<>> THEN kb
    ELSE LET m == Head(msgs) IN
         IF m.key_flag = "Exit" THEN kb
         ELSE IF m.keycode \notin DOMAIN kb THEN InSendOrder(kb, Tail(msgs))
         ELSE InSendOrder([kb EXCEPT ![m.keycode] = (m.key_flag = "Pressed")],
                          Tail(msgs))

\* The table the task ends with once it has drained what is in the queue.
Drained == IF pc = "running" THEN InSendOrder(keyboard, queue) ELSE keyboard

\* C15: a step takes at most one message off the queue, the oldest, and a
\* send adds at the tail; a step of the task leaves Drained as it was, so
\* however the two threads interleave the table after the drain is the one
\* the sent messages give in send order; a send changes the table only
\* through the queue; and the table changes in no step in which an event is
\* dispatched, a Resized or RedrawRequested one in particular.
C15_Fifo ==
    [][ /\ Len(queue') >= Len(queue) - 1
        /\ Len(queue') < Len(queue) => (queue' = Tail(queue) /\ v' = Head(queue))
        /\ Len(queue') > Len(queue) =>
              /\ SubSeq(queue', 1, Len(queue)) = queue
              /\ keyboard' = keyboard
              /\ Drained' = InSendOrder(keyboard, queue')
        /\ Len(queue') <= Len(queue) => Drained' = Drained
        /\ event' # event => (keyboard' = keyboard /\ pc' = pc /\ v' = v)
        /\ keyboard' # keyboard =>
              (Len(queue') < Len(queue) /\ UNCHANGED <<event, gfx_vars>>) ]_vars

(* ------------------------ how the loop ends (C16) --------------------- *)

\* C16: the loop of the Input State Machine ends only in the step that
\* dequeues an Exit message; an iteration that finds the queue empty or the
\* channel disconnected leaves it running, and so it runs forever once the
\* event loop has exited through the OutOfMemory arm without sending Exit.
C16_OnlyExitEnds ==
    [][ /\ (pc = "running" /\ pc' # "running") =>
               (Dequeues /\ Head(queue).key_flag = "Exit")
        /\ (pc = "running" /\ v' # v /\ v'.key_flag \in {"Empty", "Disconnected"}) =>
               pc' = "running"
        /\ (render_result = "OutOfMemory" /\ control_flow # "running"
            /\ ~ExitPending /\ pc = "running") => pc' = "running" ]_vars

(* -------------------------- redraw loop (C17) ------------------------- *)

\* C17: the handler of every RedrawRequested event asks for another redraw
\* as its first call, and asks once, whether the frame is skipped because
\* the surface is not marked configured or render ran, and whatever render
\* returned (Ok, Lost, OutOfMemory, another error, or no return at all).
C17_RedrawLoop ==
    event = RedrawRequested =>
        /\ calls # <<>>
        /\ calls[1] = "request_redraw"
        /\ Cardinality(Places("request_redraw")) = 1
        /\ render_result \in SurfaceResults \cup {"NotCalled", "Panic"}

\* A redraw whose render returned OutOfMemory: the event loop is exiting and
\* the next redraw has been requested all the same.
C17_Witness ==
    /\ event = RedrawRequested
    /\ render_result = "OutOfMemory"
    /\ control_flow = "exiting"
    /\ HasCall("request_redraw")

(* --------------------------- debug lines (C18) ------------------------ *)

\* A step of the task that is not a stuttering step: the event loop never
\* shortens the queue and never writes v, keyboard, printed or pc.
Iterates ==
    /\ pc = "running"
    /\ Len(queue') <= Len(queue)
    /\ <<queue, keyboard, pc, v, printed>>' # <<queue, keyboard, pc, v, printed>>

\* C18: every iteration of the loop, with or without a dequeued message,
\* prints one line for exactly those of the keys W, S, A, D whose flag is
\* true in the table once that iteration's message, if any, is applied.
C18_Lines ==
    [][ Iterates =>
          /\ printed' = movement(keyboard')
          /\ keyboard' = IF in_bounds(v'.keycode) THEN apply(keyboard, v')
                         ELSE keyboard ]_vars

(* ------------------------- table bounds (C19) ------------------------- *)

\* C19: every key code a Pressed or Released message carries is an index of
\* the 193-slot key table, so no iteration indexes outside the table and the
\* Input State Machine never ends by a panic.
C19_InTable ==
    /\ \A i \in 1..Len(queue) :
          queue[i].key_flag \in {"Pressed", "Released"} =>
              in_bounds(queue[i].keycode)
    /\ ~panics(v)
    /\ pc # "panicked"

(* ---------------------- stored size and config (C20) ------------------ *)

\* C20: in every reachable state the engine's stored size is
\* (config.width, config.height); the two change only together, in a
\* Resized event with positive dimensions, to that event's size; hence
\* resize(state.size), the call of the Lost arm, leaves SurfaceConfig as it
\* is and configures the surface exactly when the stored size is positive
\* in both dimensions.
C20_SizeIsConfig ==
    /\ [](/\ ConfigIs(state.size)
          /\ resize(state, state.size).state.config = state.config
          /\ resize(state, state.size).state.size = state.size
          /\ resize(state, state.size).calls = <<"configure">>
                <=> (state.size.width > 0 /\ state.size.height > 0)
          /\ (event = RedrawRequested /\ render_result = "Lost") =>
                (HasCall("configure") <=>
                    (state.size.width > 0 /\ state.size.height > 0)))
    /\ [][ (state'.size # state.size \/ state'.config # state.config) =>
              /\ event'.kind = "Resized" /\ ~ZeroArea(event')
              /\ state'.size = PhysicalSize(event'.width, event'.height)
              /\ state'.size # state.size
              /\ state'.config # state.config ]_vars

\* The surface was lost after a Resized event had configured it: the Lost
\* arm has configured the surface again with the stored size, which is the
\* config's.
C20_Witness ==
    /\ event = RedrawRequested
    /\ render_result = "Lost"
    /\ HasCall("configure")
    /\ state.size = PhysicalSize(1, MaxDim)
    /\ state.surface = Configured(state.config)
    /\ ConfigIs(PhysicalSize(1, MaxDim))

====
